---------------------------- MODULE Spec2Model ----------------------------
(***************************************************************************)
(* A model of devops_tools.py: the infrastructure query (tf_output), the   *)
(* remote command executor (run), the recursive file transfer              *)
(* (sftp_put_dir), private-key loading, the two deployment routines         *)
(* (deploy_app_vm, deploy_web_vm) and the CLI actions deploy and status.    *)
(*                                                                         *)
(* Three specifications share the module:                                  *)
(*   Spec     one CLI invocation (deploy or status), step by step;         *)
(*   SpecRun  run() applied to every bounded remote response;              *)
(*   SpecPut  sftp_put_dir() applied to every bounded local tree and        *)
(*            remote destination.                                           *)
(* The progress messages the routines print ("[APP] Installing ...") are   *)
(* not modelled; the messages of tf_output, deploy and status are.         *)
(***************************************************************************)
EXTENDS Integers, Sequences, FiniteSets, TLC

VARIABLES
    cmdline,    \* the CLI action of this invocation: "none", "deploy", "status"
    pc,         \* position of the invocation: [r |-> routine, i |-> step]
    env,        \* os.environ as tf_output read it
    tfProc,     \* what `terraform output -json` did, when it was invoked
    outs,       \* the result of tf_output()
    sess,       \* per role, the SSH client: "none", "open", "closed"
    sftp,       \* per role, the number of SFTP channels currently open
    exc,        \* the exception being propagated (NoExc when none)
    result,     \* per routine: "none", "ok" (returned), "raised"
    log,        \* every remote operation issued, in order
    remote,     \* the state of the two hosts
    appFs,      \* the remote application directory tree on the app host
    stdout,     \* what the tool printed
    err,        \* the exception that ended the invocation
    httpGets,   \* the HTTP requests issued
    httpResp,   \* what the health endpoint answered (NoResponse when not asked)
    keyFile,    \* which key classes parse the private-key file (Unread before
                \* ssh_client first reads it)
    fnPc,       \* SpecRun / SpecPut: "in" (inputs drawn), "out" (applied)
    fnIn,       \* SpecRun / SpecPut: the inputs
    fnOut       \* SpecRun / SpecPut: the result

vars == <<cmdline, pc, env, tfProc, outs, sess, sftp, exc, result, log,
          remote, appFs, stdout, err, httpGets, httpResp, keyFile, fnPc, fnIn,
          fnOut>>

deployVars == <<cmdline, pc, env, tfProc, outs, sess, sftp, exc, result, log,
                remote, appFs, stdout, err, httpGets, httpResp, keyFile>>

fnVars == <<fnPc, fnIn, fnOut>>

---------------------------------------------------------------------------
(* Bounds *)

MaxRc == 2          \* remote exit statuses 0..MaxRc
MaxStream == 2      \* captured streams of at most this many bytes
MaxNodes == 3       \* local trees of at most this many entries

---------------------------------------------------------------------------
(* Python values *)

NoneV == "<None>"                       \* Python's None

Truthy(v) == v # NoneV /\ v # ""        \* bool(v) for v a str or None

Roles == {"app", "web"}

\* the exception record; NoExc is "no exception"
Exception(type, what, rc, cmd, out, er, errors) ==
    [type |-> type, what |-> what, rc |-> rc, cmd |-> cmd,
     stdout |-> out, stderr |-> er, errors |-> errors]

NoExc == Exception("none", "", 0, "", <<>>, <<>>, <<>>)

ClickException(what) == Exception("ClickException", what, 0, "", <<>>, <<>>, <<>>)

\* an exception raised inside a library (paramiko, jinja2, requests, open())
LibraryError(type, what) == Exception(type, what, 0, "", <<>>, <<>>, <<>>)

---------------------------------------------------------------------------
(* bytes.decode(): UTF-8, errors="strict", over the bytes of ByteVals       *)

ByteVals == {79, 195, 169, 255}         \* 'O', the two bytes of U+00E9, 0xFF

RECURSIVE Decode(_)
Decode(bs) ==
    IF bs = <<>> THEN [ok |-> TRUE, text |-> <<>>]
    ELSE LET b == Head(bs) IN
         IF b < 128
         THEN LET r == Decode(Tail(bs)) IN
              [ok |-> r.ok, text |-> IF r.ok THEN <<b>> \o r.text ELSE <<>>]
         ELSE IF b >= 194 /\ b <= 223 /\ Len(bs) >= 2
                 /\ bs[2] >= 128 /\ bs[2] <= 191
         THEN LET r == Decode(Tail(Tail(bs))) IN
              [ok |-> r.ok,
               text |-> IF r.ok THEN <<(b - 192) * 64 + (bs[2] - 128)>> \o r.text
                        ELSE <<>>]
         ELSE [ok |-> FALSE, text |-> <<>>]

---------------------------------------------------------------------------
(* run(ssh, cmd): the remote response is [rc, out, err] with out and err    *)
(* the bytes read from the two streams.                                     *)

RunRaisesOn(rc) == rc # 0

Run(cmd, resp) ==
    LET o == Decode(resp.out)
        e == Decode(resp.err)
    IN IF ~o.ok \/ ~e.ok
       THEN [kind |-> "raise", value |-> <<>>,
             exc |-> LibraryError("UnicodeDecodeError", "run")]
       ELSE IF RunRaisesOn(resp.rc)
       THEN [kind |-> "raise", value |-> <<>>,
             exc |-> Exception("ClickException", "Command failed", resp.rc, cmd,
                               o.text, e.text, <<>>)]
       ELSE [kind |-> "return", value |-> o.text, exc |-> NoExc]

---------------------------------------------------------------------------
(* tf_output(): e is os.environ restricted to the three variables, proc is  *)
(* what `terraform output -json` does when invoked: its exit status and     *)
(* the "value" of each of the three outputs (NoneV: the output is absent).  *)

EnvAddr == [APP_VM_IP |-> "192.0.2.5", WEB_VM_IP |-> "192.0.2.9",
            APP_PRIVATE_IP |-> "192.0.2.6"]

TfAddr == [app_public_ip |-> "10.0.0.5", web_public_ip |-> "10.0.0.9",
           app_private_ip |-> "10.0.0.6"]

Envs == [APP_VM_IP : {NoneV, "", EnvAddr.APP_VM_IP},
         WEB_VM_IP : {NoneV, "", EnvAddr.WEB_VM_IP},
         APP_PRIVATE_IP : {NoneV, "", EnvAddr.APP_PRIVATE_IP}]

OutputSets == [app_public_ip : {NoneV, "", TfAddr.app_public_ip},
               web_public_ip : {NoneV, "", TfAddr.web_public_ip},
               app_private_ip : {NoneV, "", TfAddr.app_private_ip}]

NoOutputs == [app_public_ip |-> NoneV, web_public_ip |-> NoneV,
              app_private_ip |-> NoneV]

TfProcs == [rc : {0, 1}, outputs : OutputSets]

NotInvoked == [rc |-> -1, outputs |-> NoOutputs]

NotQueried == [kind |-> "none", source |-> "none", queries |-> 0,
               outs |-> NoOutputs, exc |-> NoExc]

EnvComplete(e) ==
    Truthy(e.APP_VM_IP) /\ Truthy(e.WEB_VM_IP) /\ Truthy(e.APP_PRIVATE_IP)

\* a tf_output that lets each environment variable that is set override
\* the provisioner's value
tf_outputMerged(e, proc) ==
    IF EnvComplete(e)
    THEN [kind |-> "return", source |-> "env", queries |-> 0,
          outs |-> [app_public_ip |-> e.APP_VM_IP,
                    web_public_ip |-> e.WEB_VM_IP,
                    app_private_ip |-> e.APP_PRIVATE_IP],
          exc |-> NoExc]
    ELSE IF proc.rc = 0
    THEN [kind |-> "return", source |-> "terraform", queries |-> 1,
          outs |-> [app_public_ip |-> IF Truthy(e.APP_VM_IP) THEN e.APP_VM_IP
                                      ELSE proc.outputs.app_public_ip,
                    web_public_ip |-> IF Truthy(e.WEB_VM_IP) THEN e.WEB_VM_IP
                                      ELSE proc.outputs.web_public_ip,
                    app_private_ip |-> IF Truthy(e.APP_PRIVATE_IP)
                                       THEN e.APP_PRIVATE_IP
                                       ELSE proc.outputs.app_private_ip],
          exc |-> NoExc]
    ELSE [kind |-> "raise", source |-> "none", queries |-> 1,
          outs |-> NoOutputs,
          exc |-> ClickException("Terraform output failed")]

tf_output(e, proc) ==
    IF EnvComplete(e)
    THEN [kind |-> "return", source |-> "env", queries |-> 0,
          outs |-> [app_public_ip |-> e.APP_VM_IP,
                    web_public_ip |-> e.WEB_VM_IP,
                    app_private_ip |-> e.APP_PRIVATE_IP],
          exc |-> NoExc]
    ELSE IF proc.rc = 0
    THEN [kind |-> "return", source |-> "terraform", queries |-> 1,
          outs |-> proc.outputs, exc |-> NoExc]
    ELSE [kind |-> "raise", source |-> "none", queries |-> 1,
          outs |-> NoOutputs,
          exc |-> ClickException("Terraform output failed")]

---------------------------------------------------------------------------
(* load_private_key(path): parses[i] says whether key class i parses the    *)
(* file.                                                                    *)

KeyClasses == <<"Ed25519Key", "RSAKey", "ECDSAKey">>

KeyParses == [1..Len(KeyClasses) -> BOOLEAN]

\* the key file before it is read
Unread == [read |-> FALSE, parses |-> [i \in 1..Len(KeyClasses) |-> FALSE]]

\* what reading the key file can find, given what an earlier read found
KeyFiles(seen) == IF seen.read THEN {seen.parses} ELSE KeyParses

RECURSIVE TryKeyClasses(_, _, _)
TryKeyClasses(parses, i, errors) ==
    IF i > Len(KeyClasses)
    THEN [kind |-> "raise", key |-> "",
          exc |-> Exception("ClickException", "Could not load private key",
                            0, "", <<>>, <<>>, errors)]
    ELSE IF parses[i]
    THEN [kind |-> "return", key |-> KeyClasses[i], exc |-> NoExc]
    ELSE TryKeyClasses(parses, i + 1, Append(errors, KeyClasses[i]))

\* a loader that tries the first key class only
load_private_keyFirstOnly(parses) ==
    IF parses[1]
    THEN [kind |-> "return", key |-> KeyClasses[1], exc |-> NoExc]
    ELSE [kind |-> "raise", key |-> "",
          exc |-> Exception("ClickException", "Could not load private key",
                            0, "", <<>>, <<>>, <<KeyClasses[1]>>)]

load_private_key(parses) == TryKeyClasses(parses, 1, <<>>)

\* ssh_client(host, user, key_path): connects iff the key loads and
\* client.connect() succeeds
ssh_client(parses, connects) ==
    LET k == load_private_key(parses) IN
    IF k.kind = "raise" THEN [kind |-> "raise", connected |-> FALSE, exc |-> k.exc]
    ELSE IF ~connects
    THEN [kind |-> "raise", connected |-> FALSE,
          exc |-> LibraryError("SSHException", "connect")]
    ELSE [kind |-> "return", connected |-> TRUE, exc |-> NoExc]

---------------------------------------------------------------------------
(* sftp_put_dir(sftp, local_dir, remote_dir).  A tree is a function from    *)
(* paths (sequences of names) to "d" (directory) or a file's content; the   *)
(* path <<>> is the directory the tree hangs from.  remote_path is          *)
(* remote_dir.rstrip('/') + "/" + item.name, here Append(remote_dir, name). *)

Names == {"a", "b"}

FileData == {"f1", "f2"}                \* contents of local files

Stale == "f0"                           \* content left by an earlier upload

NoTree == [p \in {} |-> "d"]

Parent(p) == SubSeq(p, 1, Len(p) - 1)

IsDir(fs, p) == p = <<>> \/ (p \in DOMAIN fs /\ fs[p] = "d")

Extend(fs, p, v) == [q \in DOMAIN fs \cup {p} |-> IF q = p THEN v ELSE fs[q]]

Traversal(fs) == [fs |-> fs, log |-> <<>>, ok |-> TRUE, exc |-> NoExc]

\* an IOError of sftp.mkdir that is not caught
MkdirFailedRaises(st, p) ==
    [st EXCEPT !.ok = FALSE,
               !.exc = LibraryError("IOError", "mkdir"),
               !.log = Append(@, [op |-> "mkdir", path |-> p, ok |-> FALSE])]

\* an IOError of sftp.mkdir inside its try/except: swallowed
MkdirFailed(st, p) ==
    [st EXCEPT !.log = Append(@, [op |-> "mkdir", path |-> p, ok |-> FALSE])]

\* a transfer that creates no directory
SftpMkdirSkipped(p, st) == st

\* sftp.mkdir(p) inside try/except IOError: pass
SftpMkdir(p, st) ==
    IF p # <<>> /\ p \notin DOMAIN st.fs /\ IsDir(st.fs, Parent(p))
    THEN [st EXCEPT !.fs = Extend(@, p, "d"),
                    !.log = Append(@, [op |-> "mkdir", path |-> p, ok |-> TRUE])]
    ELSE MkdirFailed(st, p)

\* the content sftp.put leaves at the remote path
PutContent(data) == data

\* sftp.put(str(item), remote_path); fails when the transfer fails (failed)
\* or the remote path cannot be written
SftpPut(failed, p, data, st) ==
    IF failed \/ ~IsDir(st.fs, Parent(p)) \/ IsDir(st.fs, p)
    THEN [st EXCEPT !.ok = FALSE,
                    !.exc = LibraryError("IOError", "put"),
                    !.log = Append(@, [op |-> "put", path |-> p, ok |-> FALSE])]
    ELSE [st EXCEPT !.fs = Extend(@, p, PutContent(data)),
                    !.log = Append(@, [op |-> "put", path |-> p, ok |-> TRUE])]

\* local_dir.iterdir(), in the order ord lists the names
RECURSIVE Iterdir(_, _, _)
Iterdir(tree, ord, dir) ==
    IF ord = <<>> THEN <<>>
    ELSE (IF Append(dir, Head(ord)) \in DOMAIN tree THEN <<Head(ord)>> ELSE <<>>)
         \o Iterdir(tree, Tail(ord), dir)

RECURSIVE sftp_put_dir(_, _, _, _, _, _), PutItems(_, _, _, _, _, _, _)
sftp_put_dir(tree, ord, failAt, localDir, remoteDir, st) ==
    PutItems(tree, ord, failAt, Iterdir(tree, ord, localDir), localDir, remoteDir,
             SftpMkdir(remoteDir, st))

PutItems(tree, ord, failAt, items, localDir, remoteDir, st) ==
    IF items = <<>> \/ ~st.ok THEN st
    ELSE LET item == Append(localDir, Head(items))
             remotePath == Append(remoteDir, Head(items))
             st2 == IF tree[item] = "d"
                    THEN sftp_put_dir(tree, ord, failAt, item, remotePath,
                                      SftpMkdir(remotePath, st))
                    ELSE SftpPut(item = failAt, remotePath, tree[item], st)
         IN PutItems(tree, ord, failAt, Tail(items), localDir, remoteDir, st2)

---------------------------------------------------------------------------
(* The deployment routines.  Commands are given with the default            *)
(* parameters (admin_user "devcloud", app_dir "flaskapp").                  *)

CmdAppPrereqs == "sudo apt-get update -y && sudo apt-get install -y python3-venv python3-pip"
CmdAppMkdir == "mkdir -p /home/devcloud/flaskapp"
CmdAppVenv == "python3 -m venv /home/devcloud/flaskapp/venv"
CmdAppPipUpgrade == "/home/devcloud/flaskapp/venv/bin/python -m pip install --upgrade pip setuptools wheel"
CmdAppPipInstall == "/home/devcloud/flaskapp/venv/bin/pip install -r /home/devcloud/flaskapp/requirements.txt"
CmdAppMvUnit == "sudo mv /home/devcloud/gunicorn.service /etc/systemd/system/gunicorn.service"
CmdAppReload == "sudo systemctl daemon-reload"
CmdAppEnable == "sudo systemctl enable --now gunicorn.service"
CmdWebNginx == "sudo apt-get update -y && sudo apt-get install -y nginx"
CmdWebMvConf == "sudo mv /home/devcloud/flaskapp_nginx.conf /etc/nginx/conf.d/flaskapp.conf"
CmdWebValidate == "sudo nginx -t"
CmdWebRestart == "sudo systemctl restart nginx && sudo systemctl enable nginx"

TmpUnit == "/home/devcloud/gunicorn.service"
TmpConf == "/home/devcloud/flaskapp_nginx.conf"

Step(op, arg) == [op |-> op, arg |-> arg]

\* the service enabled and started before the service manager is reloaded
AppStepsEnableFirst == <<
    Step("connect", ""), Step("run", CmdAppPrereqs), Step("open_sftp", ""),
    Step("run", CmdAppMkdir), Step("put_dir", "app"), Step("sftp_close", ""),
    Step("run", CmdAppVenv), Step("run", CmdAppPipUpgrade),
    Step("run", CmdAppPipInstall), Step("render", "gunicorn.service.j2"),
    Step("open_sftp", ""), Step("write", TmpUnit), Step("sftp_close", ""),
    Step("run", CmdAppMvUnit), Step("run", CmdAppEnable),
    Step("run", CmdAppReload), Step("close", "") >>

\* deploy_app_vm, statement by statement
AppSteps == <<
    Step("connect", ""),                    \* 1   ssh = ssh_client(...)
    Step("run", CmdAppPrereqs),             \* 2
    Step("open_sftp", ""),                  \* 3   sftp = ssh.open_sftp()
    Step("run", CmdAppMkdir),               \* 4
    Step("put_dir", "app"),                 \* 5   sftp_put_dir(sftp, APP_DIR, ...)
    Step("sftp_close", ""),                 \* 6   finally: sftp.close()
    Step("run", CmdAppVenv),                \* 7
    Step("run", CmdAppPipUpgrade),          \* 8
    Step("run", CmdAppPipInstall),          \* 9
    Step("render", "gunicorn.service.j2"),  \* 10
    Step("open_sftp", ""),                  \* 11
    Step("write", TmpUnit),                 \* 12  sftp.open(tmp_unit, "w"); write
    Step("sftp_close", ""),                 \* 13  finally: sftp.close()
    Step("run", CmdAppMvUnit),              \* 14
    Step("run", CmdAppReload),              \* 15
    Step("run", CmdAppEnable),              \* 16
    Step("close", "") >>                    \* 17  finally: ssh.close()

\* a proxy routine that restarts the proxy before validating its configuration
WebStepsRestartFirst ==
    << Step("connect", ""),
       Step("run", CmdWebNginx),
       Step("render", "nginx.conf.j2"),
       Step("open_sftp", ""),
       Step("write", TmpConf),
       Step("sftp_close", ""),
       Step("run", CmdWebMvConf),
       Step("run", CmdWebRestart),
       Step("run", CmdWebValidate),
       Step("close", "") >>

\* deploy_web_vm, statement by statement
WebSteps == <<
    Step("connect", ""),                    \* 1
    Step("run", CmdWebNginx),               \* 2
    Step("render", "nginx.conf.j2"),        \* 3
    Step("open_sftp", ""),                  \* 4
    Step("write", TmpConf),                 \* 5
    Step("sftp_close", ""),                 \* 6   finally: sftp.close()
    Step("run", CmdWebMvConf),              \* 7
    Step("run", CmdWebValidate),            \* 8
    Step("run", CmdWebRestart),             \* 9
    Step("close", "") >>                    \* 10  finally: ssh.close()

Steps(role) == IF role = "app" THEN AppSteps ELSE WebSteps

\* the try/finally blocks: the steps of the try suite and its finally step
Try(first, last, fin) == [first |-> first, last |-> last, finally |-> fin]

AppTryBlocks == {Try(4, 5, 6), Try(12, 12, 13), Try(2, 16, 17)}

WebTryBlocks == {Try(5, 5, 6), Try(2, 9, 10)}

TryBlocks(role) == IF role = "app" THEN AppTryBlocks ELSE WebTryBlocks

\* routines written without try/finally: every exception leaves at once
HandlerNoFinally(role, i) == 0

\* a failing step that is skipped: the routine goes on with the next one
HandlerSkipsToNext(role, i) == IF i < Len(Steps(role)) THEN i + 1 ELSE 0

\* routines whose transfer blocks have no finally of their own: an exception
\* goes straight to the closing of the session
HandlerOuterOnly(role, i) ==
    IF 2 <= i /\ i < Len(Steps(role)) THEN Len(Steps(role)) ELSE 0

\* where an exception raised at step i continues: the finally step of the
\* innermost enclosing try, or 0 when it leaves the routine
Handler(role, i) ==
    LET encl == {b \in TryBlocks(role) : b.first <= i /\ i <= b.last} IN
    IF encl = {} THEN 0
    ELSE (CHOOSE b \in encl : \A c \in encl : b.last - b.first <= c.last - c.first).finally

\* the routine deploy runs after `role`, "" after the last
NextRoutine(role) == IF role = "app" THEN "web" ELSE ""

\* a test that forgets the private address
AllPresentTwo(web, app, priv) == Truthy(web) /\ Truthy(app)

\* deploy's test of the three values: all([web_public, app_public, app_private])
AllPresent(web, app, priv) == Truthy(web) /\ Truthy(app) /\ Truthy(priv)

---------------------------------------------------------------------------
(* The hosts.  unit / conf: "none", "prev" (installed before this           *)
(* invocation) or "cur" (installed by it).                                  *)

FreshApp == [prereqs |-> FALSE, venv |-> FALSE, pip |-> FALSE, deps |-> FALSE,
             tmp |-> FALSE, unit |-> "none", reloaded |-> FALSE,
             service |-> "stopped"]

FreshWeb == [nginx |-> FALSE, tmp |-> FALSE, conf |-> "none",
             validated |-> FALSE, restarted |-> FALSE]

\* the hosts as an earlier, complete deploy left them
PriorApp == [prereqs |-> TRUE, venv |-> TRUE, pip |-> TRUE, deps |-> TRUE,
             tmp |-> FALSE, unit |-> "prev", reloaded |-> FALSE,
             service |-> "running"]

PriorWeb == [nginx |-> TRUE, tmp |-> FALSE, conf |-> "prev",
             validated |-> FALSE, restarted |-> FALSE]

\* APP_DIR: the application and its dependency manifest
AppTree == (<<"app.py">> :> "f1") @@ (<<"requirements.txt">> :> "f2")

\* the orders in which iterdir() may list APP_DIR
AppOrders == {<<"app.py", "requirements.txt">>, <<"requirements.txt", "app.py">>}

RemoteAppDir == <<"flaskapp">>

PriorAppFs == (RemoteAppDir :> "d") @@ (<<"flaskapp", "app.py">> :> Stale)

\* a move of the proxy configuration that leaves it where it was uploaded
EffectNoInstall(cmd, h) ==
    CASE cmd = CmdAppPrereqs -> [h EXCEPT !.prereqs = TRUE]
      [] cmd = CmdAppVenv -> [h EXCEPT !.venv = TRUE]
      [] cmd = CmdAppPipUpgrade -> [h EXCEPT !.pip = TRUE]
      [] cmd = CmdAppPipInstall -> [h EXCEPT !.deps = TRUE]
      [] cmd = CmdAppMvUnit -> [h EXCEPT !.unit = "cur", !.tmp = FALSE]
      [] cmd = CmdAppReload -> [h EXCEPT !.reloaded = TRUE]
      [] cmd = CmdAppEnable -> [h EXCEPT !.service = "running"]
      [] cmd = CmdWebNginx -> [h EXCEPT !.nginx = TRUE]
      [] cmd = CmdWebValidate -> [h EXCEPT !.validated = TRUE]
      [] cmd = CmdWebRestart -> [h EXCEPT !.restarted = TRUE]
      [] OTHER -> h

\* the effect of a command that exits 0 on its host
Effect(cmd, h) ==
    CASE cmd = CmdAppPrereqs -> [h EXCEPT !.prereqs = TRUE]
      [] cmd = CmdAppVenv -> [h EXCEPT !.venv = TRUE]
      [] cmd = CmdAppPipUpgrade -> [h EXCEPT !.pip = TRUE]
      [] cmd = CmdAppPipInstall -> [h EXCEPT !.deps = TRUE]
      [] cmd = CmdAppMvUnit -> [h EXCEPT !.unit = "cur", !.tmp = FALSE]
      [] cmd = CmdAppReload -> [h EXCEPT !.reloaded = TRUE]
      [] cmd = CmdAppEnable -> [h EXCEPT !.service = "running"]
      [] cmd = CmdWebNginx -> [h EXCEPT !.nginx = TRUE]
      [] cmd = CmdWebMvConf -> [h EXCEPT !.conf = "cur", !.tmp = FALSE]
      [] cmd = CmdWebValidate -> [h EXCEPT !.validated = TRUE]
      [] cmd = CmdWebRestart -> [h EXCEPT !.restarted = TRUE]
      [] OTHER -> h

\* mkdir -p of the application directory
MkdirP(fs, p) == IF p \in DOMAIN fs THEN fs ELSE Extend(fs, p, "d")

---------------------------------------------------------------------------
(* status(): q is the result of tf_output(), resp what requests.get does.   *)

HttpResponses == [kind : {"response"}, code : {200, 502}, body : {"OK", ""}]
                 \cup {[kind |-> "error", code |-> 0, body |-> ""]}

NoResponse == [kind |-> "none", code |-> 0, body |-> ""]

Line(msg, url, code, body) == [msg |-> msg, url |-> url, code |-> code, body |-> body]

HealthUrl(web) == <<"http://", web, "/health">>

SiteUrl(web) == <<"http://", web, "/">>

\* a status that asks again after a network failure
StatusRequestsRetry(web, resp) ==
    IF resp.kind = "error" THEN <<HealthUrl(web), HealthUrl(web)>>
    ELSE <<HealthUrl(web)>>

\* the requests the try block of status issues
StatusRequests(web, resp) == <<HealthUrl(web)>>

status(q, resp) ==
    IF q.kind = "raise"
    THEN [gets |-> <<>>, printed |-> <<>>, exc |-> q.exc]
    ELSE IF ~Truthy(q.outs.web_public_ip)
    THEN [gets |-> <<>>, printed |-> <<>>,
          exc |-> ClickException("web_public_ip missing in Terraform outputs")]
    ELSE IF resp.kind = "response"
    THEN [gets |-> StatusRequests(q.outs.web_public_ip, resp),
          printed |-> <<Line("health", HealthUrl(q.outs.web_public_ip),
                             resp.code, resp.body)>>,
          exc |-> NoExc]
    ELSE [gets |-> StatusRequests(q.outs.web_public_ip, resp), printed |-> <<>>,
          exc |-> ClickException("Status check failed")]

---------------------------------------------------------------------------
(* One CLI invocation *)

Idle == [r |-> "idle", i |-> 0]
Done == [r |-> "done", i |-> 0]
Failed == [r |-> "failed", i |-> 0]
At(r, i) == [r |-> r, i |-> i]

NoEnv == [APP_VM_IP |-> NoneV, WEB_VM_IP |-> NoneV, APP_PRIVATE_IP |-> NoneV]

StreamSamples == {<<>>, <<79>>, <<255>>}

Responses == [rc : 0..MaxRc, out : StreamSamples, err : StreamSamples]

\* routines that are handed each other's address
HostOfSwapped(role) ==
    IF role = "app" THEN outs.outs.web_public_ip ELSE outs.outs.app_public_ip

\* the address deploy hands to the routine of `role`
HostOf(role) ==
    IF role = "app" THEN outs.outs.app_public_ip ELSE outs.outs.web_public_ip

Event(ev, role, arg, rc) ==
    [ev |-> ev, role |-> role, host |-> HostOf(role), arg |-> arg, rc |-> rc]

EnvInfo(q) ==
    IF q.source = "env"
    THEN <<Line("Using IPs from environment variables", <<>>, 0, "")>>
    ELSE <<>>

InStep(role, op) ==
    /\ pc.r = role
    /\ pc.i \in 1..Len(Steps(role))
    /\ Steps(role)[pc.i].op = op

\* the step at pc completed: go on with the next statement
Advance == pc' = At(pc.r, pc.i + 1) /\ UNCHANGED <<exc, result, err>>

\* deploy catching a routine's exception and going on with the next routine
RaiseAtSwallowed(e) ==
    LET h == Handler(pc.r, pc.i) IN
    IF h = 0
    THEN /\ pc' = IF pc.r = "app" THEN At("web", 1) ELSE Failed
         /\ exc' = NoExc
         /\ result' = [result EXCEPT ![pc.r] = "raised"]
         /\ err' = e
    ELSE /\ pc' = At(pc.r, h)
         /\ exc' = e
         /\ UNCHANGED <<result, err>>

\* deploy answering a failure of the proxy routine by deploying the
\* application host again
RaiseAtRedeploysApp(e) ==
    LET h == Handler(pc.r, pc.i) IN
    IF h = 0
    THEN /\ pc' = IF pc.r = "web" THEN At("app", 1) ELSE Failed
         /\ exc' = NoExc
         /\ result' = [result EXCEPT ![pc.r] = "raised"]
         /\ err' = e
    ELSE /\ pc' = At(pc.r, h)
         /\ exc' = e
         /\ UNCHANGED <<result, err>>

\* a deploy that prints its completion message whatever the routines did
RaiseAtThenPrints(e) ==
    LET h == Handler(pc.r, pc.i) IN
    IF h = 0
    THEN /\ pc' = At("deploy", 3)
         /\ exc' = NoExc
         /\ result' = [result EXCEPT ![pc.r] = "raised"]
         /\ err' = e
    ELSE /\ pc' = At(pc.r, h)
         /\ exc' = e
         /\ UNCHANGED <<result, err>>

\* exception e is raised, or propagates, at the step at pc
RaiseAt(e) ==
    LET h == Handler(pc.r, pc.i) IN
    IF h = 0
    THEN /\ pc' = Failed
         /\ exc' = NoExc
         /\ result' = [result EXCEPT ![pc.r] = "raised"]
         /\ err' = e
    ELSE /\ pc' = At(pc.r, h)
         /\ exc' = e
         /\ UNCHANGED <<result, err>>

InitDeploy ==
    /\ cmdline = "none"
    /\ pc = Idle
    /\ env = NoEnv
    /\ tfProc = NotInvoked
    /\ outs = NotQueried
    /\ sess = [r \in Roles |-> "none"]
    /\ sftp = [r \in Roles |-> 0]
    /\ exc = NoExc
    /\ result = [r \in Roles |-> "none"]
    /\ log = <<>>
    /\ \E prior \in BOOLEAN :
          /\ remote = IF prior THEN [app |-> PriorApp, web |-> PriorWeb]
                      ELSE [app |-> FreshApp, web |-> FreshWeb]
          /\ appFs = IF prior THEN PriorAppFs ELSE NoTree
    /\ stdout = <<>>
    /\ err = NoExc
    /\ httpGets = <<>>
    /\ httpResp = NoResponse
    /\ keyFile = Unread

Init ==
    /\ InitDeploy
    /\ fnPc = "off"
    /\ fnIn = <<>>
    /\ fnOut = <<>>

\* deploy: outs = tf_output()
DeployTfOutput ==
    /\ pc = Idle
    /\ \E e \in Envs, proc \in TfProcs :
          LET q == tf_output(e, proc) IN
          /\ cmdline' = "deploy"
          /\ env' = e
          /\ tfProc' = IF q.queries = 0 THEN NotInvoked ELSE proc
          /\ outs' = q
          /\ stdout' = stdout \o EnvInfo(q)
          /\ IF q.kind = "raise"
             THEN pc' = Failed /\ err' = q.exc
             ELSE pc' = At("deploy", 2) /\ err' = err
    /\ UNCHANGED <<sess, sftp, exc, result, log, remote, appFs, httpGets,
                   httpResp, keyFile, fnVars>>

\* deploy: the test of the three values
DeployCheck ==
    /\ pc = At("deploy", 2)
    /\ IF AllPresent(outs.outs.web_public_ip, outs.outs.app_public_ip,
                     outs.outs.app_private_ip)
       THEN /\ pc' = At("app", 1)
            /\ stdout' = Append(stdout, Line("Terraform outputs", <<>>, 0, ""))
            /\ err' = err
       ELSE /\ pc' = Failed
            /\ err' = ClickException("Missing Terraform outputs")
            /\ stdout' = stdout
    /\ UNCHANGED <<cmdline, env, tfProc, outs, sess, sftp, exc, result, log,
                   remote, appFs, httpGets, httpResp, keyFile, fnVars>>

\* ssh = ssh_client(host, admin_user, key_path), outside the try; the key
\* file is the same file at every call of one invocation
Connect ==
    /\ \E role \in Roles : InStep(role, "connect")
    /\ \E parses \in KeyFiles(keyFile), connects \in BOOLEAN :
          LET k == load_private_key(parses)
              c == ssh_client(parses, connects)
          IN
          /\ keyFile' = [read |-> TRUE, parses |-> parses]
          /\ log' = IF k.kind = "return"
                    THEN Append(log, Event("connect", pc.r, k.key,
                                           IF connects THEN 0 ELSE 1))
                    ELSE log
          /\ IF c.kind = "return"
             THEN sess' = [sess EXCEPT ![pc.r] = "open"] /\ Advance
             ELSE sess' = sess /\ RaiseAt(c.exc)
    /\ UNCHANGED <<cmdline, env, tfProc, outs, sftp, remote, appFs, stdout,
                   httpGets, httpResp, fnVars>>

\* run(ssh, cmd): the command takes effect on the host when it exits 0,
\* whatever run() then makes of its output
RunStep ==
    /\ \E role \in Roles : InStep(role, "run")
    /\ \E resp \in Responses :
          LET cmd == Steps(pc.r)[pc.i].arg
              r == Run(cmd, resp)
          IN
          /\ log' = Append(log, Event("exec", pc.r, cmd, resp.rc))
          /\ remote' = IF resp.rc = 0 THEN [remote EXCEPT ![pc.r] = Effect(cmd, @)]
                        ELSE remote
          /\ appFs' = IF resp.rc = 0 /\ cmd = CmdAppMkdir
                      THEN MkdirP(appFs, RemoteAppDir)
                      ELSE appFs
          /\ IF r.kind = "return" THEN Advance ELSE RaiseAt(r.exc)
    /\ UNCHANGED <<cmdline, env, tfProc, outs, sess, sftp, stdout, httpGets,
                   httpResp, keyFile, fnVars>>

\* sftp = ssh.open_sftp()
OpenSftp ==
    /\ \E role \in Roles : InStep(role, "open_sftp")
    /\ \E ok \in BOOLEAN :
          /\ log' = Append(log, Event("open_sftp", pc.r, "", IF ok THEN 0 ELSE 1))
          /\ IF ok
             THEN sftp' = [sftp EXCEPT ![pc.r] = @ + 1] /\ Advance
             ELSE sftp' = sftp /\ RaiseAt(LibraryError("SSHException", "open_sftp"))
    /\ UNCHANGED <<cmdline, env, tfProc, outs, sess, remote, appFs, stdout,
                   httpGets, httpResp, keyFile, fnVars>>

\* sftp_put_dir(sftp, APP_DIR, remote_app_dir)
PutDirStep ==
    /\ InStep("app", "put_dir")
    /\ \E failAt \in DOMAIN AppTree \cup {<<>>},
          ord \in AppOrders :
          LET st == sftp_put_dir(AppTree, ord, failAt, <<>>, RemoteAppDir,
                                 Traversal(appFs))
          IN
          /\ appFs' = st.fs
          /\ log' = Append(log, Event("put_dir", pc.r, "app", IF st.ok THEN 0 ELSE 1))
          /\ IF st.ok THEN Advance ELSE RaiseAt(st.exc)
    /\ UNCHANGED <<cmdline, env, tfProc, outs, sess, sftp, remote, stdout,
                   httpGets, httpResp, keyFile, fnVars>>

\* Template(...read_text()).render(...)
RenderStep ==
    /\ \E role \in Roles : InStep(role, "render")
    /\ \E ok \in BOOLEAN :
          IF ok THEN Advance
          ELSE RaiseAt(LibraryError("TemplateError", Steps(pc.r)[pc.i].arg))
    /\ UNCHANGED <<cmdline, env, tfProc, outs, sess, sftp, log, remote, appFs,
                   stdout, httpGets, httpResp, keyFile, fnVars>>

\* with sftp.open(tmp, "w") as fh: fh.write(text)
WriteStep ==
    /\ \E role \in Roles : InStep(role, "write")
    /\ \E ok \in BOOLEAN :
          /\ log' = Append(log, Event("write", pc.r, Steps(pc.r)[pc.i].arg,
                                      IF ok THEN 0 ELSE 1))
          /\ IF ok
             THEN remote' = [remote EXCEPT ![pc.r].tmp = TRUE] /\ Advance
             ELSE remote' = remote /\ RaiseAt(LibraryError("IOError", "write"))
    /\ UNCHANGED <<cmdline, env, tfProc, outs, sess, sftp, appFs, stdout,
                   httpGets, httpResp, keyFile, fnVars>>

\* finally: sftp.close()
SftpClose ==
    /\ \E role \in Roles : InStep(role, "sftp_close")
    /\ sftp' = [sftp EXCEPT ![pc.r] = @ - 1]
    /\ log' = Append(log, Event("sftp_close", pc.r, "", 0))
    /\ IF exc = NoExc THEN Advance ELSE RaiseAt(exc)
    /\ UNCHANGED <<cmdline, env, tfProc, outs, sess, remote, appFs, stdout,
                   httpGets, httpResp, keyFile, fnVars>>

\* finally: ssh.close(); then the routine returns to deploy, or raises
SshClose ==
    /\ \E role \in Roles : InStep(role, "close")
    /\ sess' = [sess EXCEPT ![pc.r] = "closed"]
    /\ log' = Append(log, Event("close", pc.r, "", 0))
    /\ IF exc = NoExc
       THEN /\ result' = [result EXCEPT ![pc.r] = "ok"]
            /\ pc' = IF NextRoutine(pc.r) = "" THEN At("deploy", 3)
                     ELSE At(NextRoutine(pc.r), 1)
            /\ UNCHANGED <<exc, err>>
       ELSE RaiseAt(exc)
    /\ UNCHANGED <<cmdline, env, tfProc, outs, sftp, remote, appFs, stdout,
                   httpGets, httpResp, keyFile, fnVars>>

\* deploy: the completion message
DeployPrint ==
    /\ pc = At("deploy", 3)
    /\ stdout' = Append(stdout, Line("Deployment complete",
                                     SiteUrl(outs.outs.web_public_ip), 0, ""))
    /\ pc' = Done
    /\ UNCHANGED <<cmdline, env, tfProc, outs, sess, sftp, exc, result, log,
                   remote, appFs, err, httpGets, httpResp, keyFile, fnVars>>

\* the status action
Status ==
    /\ pc = Idle
    /\ \E e \in Envs, proc \in TfProcs, resp \in HttpResponses :
          LET q == tf_output(e, proc)
              s == status(q, resp)
          IN
          /\ cmdline' = "status"
          /\ env' = e
          /\ tfProc' = IF q.queries = 0 THEN NotInvoked ELSE proc
          /\ outs' = q
          /\ httpGets' = httpGets \o s.gets
          /\ httpResp' = IF s.gets = <<>> THEN NoResponse ELSE resp
          /\ stdout' = stdout \o EnvInfo(q) \o s.printed
          /\ err' = s.exc
          /\ pc' = IF s.exc = NoExc THEN Done ELSE Failed
    /\ UNCHANGED <<sess, sftp, exc, result, log, remote, appFs, keyFile, fnVars>>

Next ==
    \/ DeployTfOutput
    \/ DeployCheck
    \/ Connect
    \/ RunStep
    \/ OpenSftp
    \/ PutDirStep
    \/ RenderStep
    \/ WriteStep
    \/ SftpClose
    \/ SshClose
    \/ DeployPrint
    \/ Status

Spec == Init /\ [][Next]_vars

---------------------------------------------------------------------------
(* run() applied to every remote response within the bounds *)

ByteSeqs(n) == UNION {[1..k -> ByteVals] : k \in 0..n}

RunInputs == [cmd : {CmdWebValidate, CmdAppReload}, rc : 0..MaxRc,
              out : ByteSeqs(MaxStream), err : ByteSeqs(MaxStream)]

\* the variables of the CLI invocation, while a function is applied alone
Parked == InitDeploy /\ remote.app = FreshApp

InitRun ==
    /\ Parked
    /\ fnPc = "in"
    /\ fnIn \in RunInputs
    /\ fnOut = [kind |-> "none", value |-> <<>>, exc |-> NoExc]

ApplyRun ==
    /\ fnPc = "in"
    /\ fnPc' = "out"
    /\ fnOut' = Run(fnIn.cmd, [rc |-> fnIn.rc, out |-> fnIn.out, err |-> fnIn.err])
    /\ UNCHANGED <<fnIn, deployVars>>

SpecRun == InitRun /\ [][ApplyRun]_vars

---------------------------------------------------------------------------
(* sftp_put_dir() applied to every local tree of at most MaxNodes entries   *)
(* and every destination an earlier, possibly interrupted, transfer of the  *)
(* same tree can have left.                                                 *)

\* the paths a tree can grow by: a child of the root or of a directory
Candidates(t) ==
    {Append(q, n) : q \in {<<>>} \cup {p \in DOMAIN t : t[p] = "d"}, n \in Names}
    \ DOMAIN t

RECURSIVE Trees(_)
Trees(n) ==
    IF n = 0 THEN {NoTree}
    ELSE LET T == Trees(n - 1) IN
         T \cup UNION {{Extend(t, p, k) : p \in Candidates(t),
                                          k \in {"d"} \cup FileData} : t \in T}

DstRoot == <<"dst">>

PrefixClosed(S) == \A p \in S : Len(p) > 1 => Parent(p) \in S

\* what an earlier transfer of the entries S of the tree left under DstRoot
Leftover(tree, S) ==
    [p \in {DstRoot} \cup {DstRoot \o q : q \in S} |->
        IF p = DstRoot THEN "d"
        ELSE LET q == SubSeq(p, 2, Len(p)) IN
             IF tree[q] = "d" THEN "d" ELSE Stale]

Destinations(tree) ==
    {NoTree} \cup {Leftover(tree, S) : S \in {X \in SUBSET DOMAIN tree : PrefixClosed(X)}}

Orders == {<<"a", "b">>, <<"b", "a">>}

FilesOf(tree) == {p \in DOMAIN tree : tree[p] # "d"}

InitPut ==
    /\ Parked
    /\ fnPc = "in"
    /\ \E tree \in Trees(MaxNodes) :
       \E fs \in Destinations(tree), ord \in Orders,
          failAt \in FilesOf(tree) \cup {<<>>} :
          fnIn = [tree |-> tree, fs |-> fs, ord |-> ord, failAt |-> failAt]
    /\ fnOut = Traversal(NoTree)

ApplyPut ==
    /\ fnPc = "in"
    /\ fnPc' = "out"
    /\ fnOut' = sftp_put_dir(fnIn.tree, fnIn.ord, fnIn.failAt, <<>>, DstRoot,
                             Traversal(fnIn.fs))
    /\ UNCHANGED <<fnIn, deployVars>>

SpecPut == InitPut /\ [][ApplyPut]_vars

---------------------------------------------------------------------------
(* Claims *)

Present(name) == Truthy(outs.outs[name])

MissingAny ==
    /\ outs.kind = "return"
    /\ ~(Present("app_public_ip") /\ Present("web_public_ip")
         /\ Present("app_private_ip"))

NoRemoteContact ==
    /\ log = <<>>
    /\ \A r \in Roles : sess[r] = "none" /\ sftp[r] = 0

\* C1: when one of the three endpoint values is absent or empty after the
\* infrastructure query, deploy ends with the Missing-outputs error, having
\* opened no session and issued no remote command
C1_MissingOutputsFailBeforeContact ==
    (cmdline = "deploy" /\ MissingAny) =>
        /\ NoRemoteContact
        /\ pc \in {At("deploy", 2), Failed}
        /\ pc = Failed => err = ClickException("Missing Terraform outputs")

C1_Witness ==
    /\ cmdline = "deploy"
    /\ pc = Failed
    /\ outs.kind = "return"
    /\ Present("app_public_ip") /\ Present("web_public_ip")
    /\ outs.outs.app_private_ip = ""
    /\ err = ClickException("Missing Terraform outputs")

WebContacted == \E i \in DOMAIN log : log[i].role = "web"

AppFailing == (pc.r = "app" /\ exc # NoExc) \/ result["app"] = "raised"

\* C2: nothing happens on the proxy host before the application-host
\* routine has returned normally, and nothing ever after it has failed
C2_ProxyOnlyAfterApp ==
    /\ (WebContacted \/ pc.r = "web" \/ sess["web"] # "none") =>
          /\ result["app"] = "ok"
          /\ sess["app"] = "closed"
          /\ \A i, j \in DOMAIN log :
                (log[i].role = "app" /\ log[j].role = "web") => i < j
    /\ (AppFailing \/ \E i \in DOMAIN log : log[i].role = "app" /\ log[i].rc # 0) =>
          ~WebContacted /\ sess["web"] = "none" /\ pc.r # "web"

C2_Witness ==
    /\ pc = Failed
    /\ result["app"] = "raised"
    /\ \E i \in DOMAIN log :
          log[i].ev = "exec" /\ log[i].arg = CmdAppEnable /\ log[i].rc # 0

\* C3: once a routine has returned or raised, the session it opened is
\* closed
C3_SessionClosedOnExit ==
    \A r \in Roles :
       /\ result[r] # "none" => sess[r] # "open"
       /\ pc \in {Done, Failed} => sess[r] # "open"

C3_Witness ==
    /\ result["web"] = "raised"
    /\ sess["web"] = "closed"
    /\ err = LibraryError("IOError", "write")

WebExecs == SelectSeq(log, LAMBDA e : e.role = "web" /\ e.ev = "exec")

MoveExitedZero ==
    \E i \in DOMAIN log :
       log[i].ev = "exec" /\ log[i].arg = CmdWebMvConf /\ log[i].rc = 0

AppOkWebFailed == result["app"] = "ok" /\ result["web"] = "raised"

\* a step failed: its command exited non-zero, or its transfer, rendering or
\* channel raised
StepFailed ==
    \/ err.what = "Command failed"
    \/ err.type \in {"IOError", "SSHException", "TemplateError"}

C5_Original ==
    outs.kind # "none" =>
        /\ outs.queries = 1
        /\ outs.kind = "return"
        /\ tfProc.rc = 0 => outs.source = "terraform"
        /\ outs.source = "env" => tfProc.rc > 0

Decodes(bs) == Decode(bs).ok

\* C6 as stated: run returns the captured standard-output text for exit
\* status 0, and for every other exit status raises a failure carrying the
\* exit status, the command and both captured streams
C6_Original ==
    fnPc = "out" =>
        /\ fnIn.rc = 0 =>
              /\ fnOut.kind = "return"
              /\ Decodes(fnIn.out) => fnOut.value = Decode(fnIn.out).text
        /\ fnIn.rc # 0 =>
              /\ fnOut.kind = "raise"
              /\ fnOut.exc.what = "Command failed"
              /\ fnOut.exc.rc = fnIn.rc
              /\ fnOut.exc.cmd = fnIn.cmd
              /\ Decodes(fnIn.out) => fnOut.exc.stdout = Decode(fnIn.out).text
              /\ Decodes(fnIn.err) => fnOut.exc.stderr = Decode(fnIn.err).text

\* the commands and file transfers issued, in order
Operations ==
    LET ops == SelectSeq(log, LAMBDA e : e.ev \in {"exec", "put_dir", "write"}) IN
    [i \in 1..Len(ops) |-> <<ops[i].role, ops[i].ev, ops[i].arg>>]

DocumentedOrder == <<
    <<"app", "exec", CmdAppPrereqs>>,
    <<"app", "exec", CmdAppMkdir>>,
    <<"app", "put_dir", "app">>,
    <<"app", "exec", CmdAppVenv>>,
    <<"app", "exec", CmdAppPipUpgrade>>,
    <<"app", "exec", CmdAppPipInstall>>,
    <<"app", "write", TmpUnit>>,
    <<"app", "exec", CmdAppMvUnit>>,
    <<"app", "exec", CmdAppReload>>,
    <<"app", "exec", CmdAppEnable>>,
    <<"web", "exec", CmdWebNginx>>,
    <<"web", "write", TmpConf>>,
    <<"web", "exec", CmdWebMvConf>>,
    <<"web", "exec", CmdWebValidate>>,
    <<"web", "exec", CmdWebRestart>> >>

CompletionPrinted == \E i \in DOMAIN stdout : stdout[i].msg = "Deployment complete"

\* C7: a deploy in which every remote operation succeeded has issued the
\* operations in the documented order, each on its own host, and only then
\* printed the URL built from the proxy host's public address
C7_DocumentedOrder ==
    /\ (cmdline = "deploy" /\ pc = Done) =>
          /\ Operations = DocumentedOrder
          /\ \A i \in DOMAIN log :
                /\ log[i].rc = 0
                /\ log[i].host = IF log[i].role = "app" THEN outs.outs.app_public_ip
                                 ELSE outs.outs.web_public_ip
          /\ stdout[Len(stdout)] =
                Line("Deployment complete", <<"http://", outs.outs.web_public_ip, "/">>,
                     0, "")
    /\ CompletionPrinted => (pc = Done /\ Operations = DocumentedOrder)

C7_Witness ==
    /\ cmdline = "deploy"
    /\ pc = Done
    /\ outs.outs.web_public_ip = "10.0.0.9"
    /\ stdout[Len(stdout)].url = <<"http://", "10.0.0.9", "/">>

\* C8: a transfer that returns has reproduced every directory and every
\* file of the local tree under the destination; over whatever an earlier
\* transfer of the tree left there it returns unless an upload fails, and a
\* failing upload ends it at once with that upload's error
C8_TreeReproduced ==
    fnPc = "out" =>
        /\ fnOut.ok =>
              /\ IsDir(fnOut.fs, DstRoot)
              /\ \A p \in DOMAIN fnIn.tree :
                    /\ (DstRoot \o p) \in DOMAIN fnOut.fs
                    /\ fnOut.fs[DstRoot \o p] = fnIn.tree[p]
        /\ fnIn.failAt = <<>> => fnOut.ok
        /\ fnIn.failAt # <<>> =>
              /\ ~fnOut.ok
              /\ fnOut.exc = LibraryError("IOError", "put")
              /\ fnOut.log[Len(fnOut.log)] =
                    [op |-> "put", path |-> DstRoot \o fnIn.failAt, ok |-> FALSE]
              /\ \A i \in 1..(Len(fnOut.log) - 1) :
                    fnOut.log[i].op = "put" => fnOut.log[i].ok

\* a re-run over an interrupted transfer: a nested empty directory, a
\* directory that already exists and a stale file that is overwritten
C8_Witness ==
    /\ fnPc = "out"
    /\ fnOut.ok
    /\ \E p \in DOMAIN fnIn.tree :
          Len(p) = 2 /\ fnIn.tree[p] = "d" /\ (DstRoot \o p) \notin DOMAIN fnIn.fs
    /\ \E i \in DOMAIN fnOut.log :
          fnOut.log[i].op = "mkdir" /\ ~fnOut.log[i].ok /\ Len(fnOut.log[i].path) = 2
    /\ \E p \in FilesOf(fnIn.tree) :
          (DstRoot \o p) \in DOMAIN fnIn.fs /\ fnIn.fs[DstRoot \o p] = Stale

HealthLines == SelectSeq(stdout, LAMBDA l : l.msg = "health")

\* C9: status issues one GET to the health endpoint of the proxy host's
\* public address and prints the status code and body of the response, or
\* fails after that one request when it raises; without the address it
\* fails and issues no request
C9_StatusSingleRequest ==
    cmdline = "status" =>
        /\ (outs.kind = "return" /\ Present("web_public_ip")) =>
              /\ httpGets = <<<<"http://", outs.outs.web_public_ip, "/health">>>>
              /\ httpResp.kind \in {"response", "error"}
        /\ httpResp.kind = "response" =>
              /\ pc = Done
              /\ HealthLines = <<Line("health", httpGets[1], httpResp.code,
                                      httpResp.body)>>
        /\ httpResp.kind = "error" =>
              /\ pc = Failed
              /\ err = ClickException("Status check failed")
              /\ HealthLines = <<>>
        /\ (outs.kind = "return" /\ ~Present("web_public_ip")) =>
              /\ httpGets = <<>>
              /\ pc = Failed
              /\ err = ClickException("web_public_ip missing in Terraform outputs")
        /\ outs.kind = "raise" => httpGets = <<>> /\ pc = Failed

C9_Witness ==
    /\ cmdline = "status"
    /\ httpResp = [kind |-> "response", code |-> 200, body |-> "OK"]
    /\ Len(httpGets) = 1
    /\ stdout[Len(stdout)].code = 200 /\ stdout[Len(stdout)].body = "OK"

\* C10: after a remote command exits non-zero nothing more is issued on that
\* session (it and its channel are only closed), the routine does not
\* return normally, and no command is dispatched twice
C10_AbortOnFirstFailure ==
    /\ \A i \in DOMAIN log :
          (log[i].ev = "exec" /\ log[i].rc # 0) =>
             /\ \A j \in DOMAIN log :
                   (j > i /\ log[j].role = log[i].role) =>
                      log[j].ev \in {"sftp_close", "close"}
             /\ result[log[i].role] # "ok"
             /\ pc.r \in {log[i].role, "failed"}
    /\ \A i, j \in DOMAIN log :
          (i < j /\ log[i].ev = "exec" /\ log[j].ev = "exec") =>
             <<log[i].role, log[i].arg>> # <<log[j].role, log[j].arg>>

C10_Witness ==
    /\ pc = Failed
    /\ result["app"] = "raised"
    /\ Len(log) >= 3
    /\ log[Len(log) - 2].ev = "exec"
    /\ log[Len(log) - 2].arg = CmdAppMkdir
    /\ log[Len(log) - 2].rc # 0
    /\ log[Len(log) - 1].ev = "sftp_close"
    /\ log[Len(log)].ev = "close"

---------------------------------------------------------------------------
(* Claims C11 to C18                                                        *)

\* the log positions at which `cmd` was issued on the host of `role`
Issued(role, cmd) ==
    {i \in DOMAIN log :
        log[i].ev = "exec" /\ log[i].role = role /\ log[i].arg = cmd}

\* C11: the proxy is restarted and enabled only after the configuration
\* validation command, issued after the configuration was moved into place,
\* has exited zero; once validation has exited non-zero no restart-and-enable
\* command is issued
C11_RestartOnlyAfterValidation ==
    /\ \A i \in Issued("web", CmdWebRestart) :
          \E j \in Issued("web", CmdWebValidate) :
             /\ j < i
             /\ log[j].rc = 0
             /\ \E k \in Issued("web", CmdWebMvConf) : k < j /\ log[k].rc = 0
    /\ (\E j \in Issued("web", CmdWebValidate) : log[j].rc # 0) =>
          /\ Issued("web", CmdWebRestart) = {}
          /\ remote["web"].restarted = FALSE

C11_Witness ==
    /\ pc = Failed
    /\ \E j \in Issued("web", CmdWebValidate) : log[j].rc # 0
    /\ err.what = "Command failed" /\ err.cmd = CmdWebValidate
    /\ Issued("web", CmdWebRestart) = {}

\* the directories from the destination root down to the parent of p
Ancestors(p) == {SubSeq(p, 1, k) : k \in Len(DstRoot)..(Len(p) - 1)}

\* the creation of directory d was attempted before position i of the
\* transfer's log
CreationAttempted(d, i) ==
    \E j \in 1..(i - 1) : fnOut.log[j].op = "mkdir" /\ fnOut.log[j].path = d

\* directory d exists on the remote side at position i of the transfer's
\* log: it was there before the transfer or an earlier mkdir created it
ExistsAt(d, i) ==
    \/ IsDir(fnIn.fs, d)
    \/ \E j \in 1..(i - 1) :
          fnOut.log[j].op = "mkdir" /\ fnOut.log[j].path = d /\ fnOut.log[j].ok

\* C12: when the transfer attempts the upload of a file, the creation of
\* every directory between the destination root and the file has been
\* attempted earlier in the transfer and the directory exists on the remote
\* side
C12_DirectoriesBeforeUploads ==
    fnPc = "out" =>
        \A i \in DOMAIN fnOut.log :
           fnOut.log[i].op = "put" =>
              /\ Ancestors(fnOut.log[i].path) # {}
              /\ \A d \in Ancestors(fnOut.log[i].path) :
                    CreationAttempted(d, i) /\ ExistsAt(d, i)

\* a file two levels below a destination that did not exist
C12_Witness ==
    /\ fnPc = "out"
    /\ fnIn.fs = NoTree
    /\ \E i \in DOMAIN fnOut.log :
          /\ fnOut.log[i].op = "put" /\ fnOut.log[i].ok
          /\ Len(fnOut.log[i].path) = Len(DstRoot) + 2
          /\ \A d \in Ancestors(fnOut.log[i].path) :
                \E j \in 1..(i - 1) : fnOut.log[j] = [op |-> "mkdir", path |-> d, ok |-> TRUE]

\* the commands the routine of `role` issues
Commands(role) ==
    {Steps(role)[k].arg : k \in {n \in DOMAIN Steps(role) : Steps(role)[n].op = "run"}}

\* the public address deploy obtained for the host of `role`
AddressOf(role) ==
    IF role = "app" THEN outs.outs.app_public_ip ELSE outs.outs.web_public_ip

\* at log position i the session of `role` is open: it was connected before
\* and is not closed before
OnOpenSession(role, i) ==
    /\ \E j \in 1..(i - 1) :
          log[j].ev = "connect" /\ log[j].role = role /\ log[j].rc = 0
    /\ \A j \in 1..(i - 1) : ~(log[j].ev = "close" /\ log[j].role = role)

\* C13: at most one session is open at any time, the application host's
\* session is closed before the proxy host's is opened, and every command
\* is a command of the routine whose session it is issued on, sent to that
\* routine's host while that session is open
C13_OneSessionAtATime ==
    /\ ~(sess["app"] = "open" /\ sess["web"] = "open")
    /\ sess["web"] # "none" => sess["app"] = "closed"
    /\ \A i \in DOMAIN log :
          /\ log[i].host = AddressOf(log[i].role)
          /\ (log[i].ev = "connect" /\ log[i].role = "web") =>
                \E j \in 1..(i - 1) : log[j].ev = "close" /\ log[j].role = "app"
          /\ log[i].ev # "connect" => OnOpenSession(log[i].role, i)
          /\ log[i].ev = "exec" =>
                /\ log[i].arg \in Commands(log[i].role)
                /\ \A r \in Roles \ {log[i].role} :
                      /\ log[i].arg \notin Commands(r)
                      /\ log[i].host # AddressOf(r)
                      /\ ~OnOpenSession(r, i)

C13_Witness ==
    /\ sess["app"] = "closed"
    /\ sess["web"] = "open"
    /\ \E i \in DOMAIN log :
          log[i].ev = "exec" /\ log[i].role = "web" /\ log[i].arg = CmdWebMvConf

\* the log positions of the events of `role`
EventsOf(role) == {i \in DOMAIN log : log[i].role = role}

\* the exceptions a step of the proxy routine raises
WebFailures ==
    {LibraryError("SSHException", "connect"),
     LibraryError("SSHException", "open_sftp"),
     LibraryError("TemplateError", "nginx.conf.j2"),
     LibraryError("IOError", "write"),
     LibraryError("UnicodeDecodeError", "run")}

\* C14: when the proxy routine has failed after the application routine
\* returned, deploy has ended with the proxy routine's exception; the
\* application host saw one session, now closed, and nothing after the
\* proxy routine began; the last thing done is the end of the proxy
\* routine's session; the application service is installed, enabled and
\* running
C14_NoCompensation ==
    AppOkWebFailed =>
        /\ pc = Failed /\ exc = NoExc
        /\ ~CompletionPrinted
        /\ sess["app"] = "closed" /\ sess["web"] # "open"
        /\ \A r \in Roles :
              Cardinality({i \in EventsOf(r) : log[i].ev = "connect"}) = 1
        /\ \A i \in EventsOf("app"), j \in EventsOf("web") : i < j
        /\ LET last == log[Len(log)] IN
           /\ last.role = "web"
           /\ \/ last.ev = "close"
              \/ last.ev = "connect" /\ last.rc # 0
        /\ remote["app"].unit = "cur"
        /\ remote["app"].service = "running"
        /\ \/ err \in WebFailures
           \/ /\ err.type = "ClickException" /\ err.what = "Command failed"
              /\ err.cmd \in Commands("web")
              /\ err.rc # 0
              /\ LET execs == WebExecs IN
                 /\ execs # <<>>
                 /\ execs[Len(execs)].arg = err.cmd
                 /\ execs[Len(execs)].rc = err.rc

\* the proxy's restart exits non-zero after a complete application routine
C14_Witness ==
    /\ AppOkWebFailed
    /\ pc = Failed
    /\ err.what = "Command failed" /\ err.cmd = CmdWebRestart
    /\ remote["app"].service = "running"
    /\ log[Len(log)].ev = "close" /\ log[Len(log)].role = "web"

\* the key classes that parse the key file
Parsing == {k \in DOMAIN KeyClasses : keyFile.parses[k]}

KeyLoadFailed == err.type = "ClickException" /\ err.what = "Could not load private key"

\* C15: the key handed to every connection attempt is of the first class,
\* in the order Ed25519, RSA, ECDSA, that parses the key file; when no class
\* parses it deploy ends with one key-load failure carrying one error for
\* each of the three classes in that order, no connection was attempted and
\* no command issued; the failure is raised in no other case
C15_KeyLoading ==
    /\ KeyClasses = <<"Ed25519Key", "RSAKey", "ECDSAKey">>
    /\ \A i \in DOMAIN log :
          log[i].ev = "connect" =>
             \E k \in Parsing :
                /\ log[i].arg = KeyClasses[k]
                /\ \A j \in Parsing : k <= j
    /\ (keyFile.read /\ Parsing = {}) =>
          /\ pc = Failed
          /\ KeyLoadFailed
          /\ err.errors = KeyClasses
          /\ log = <<>>
          /\ \A r \in Roles : sess[r] = "none" /\ sftp[r] = 0
          /\ remote["app"] \in {FreshApp, PriorApp}
          /\ remote["web"] \in {FreshWeb, PriorWeb}
    /\ (keyFile.read /\ Parsing # {}) =>
          /\ log # <<>>
          /\ log[1].ev = "connect" /\ log[1].role = "app"
    /\ KeyLoadFailed => keyFile.read /\ Parsing = {}

C15_Witness ==
    /\ cmdline = "deploy"
    /\ pc = Failed
    /\ keyFile.read /\ Parsing = {}
    /\ KeyLoadFailed /\ Len(err.errors) = 3
    /\ log = <<>>

\* something failed: a routine raised, an exception is on its way, deploy
\* ended with an error, or a remote operation did not succeed
AnyFailure ==
    \/ pc = Failed
    \/ exc # NoExc
    \/ err # NoExc
    \/ \E r \in Roles : result[r] = "raised"
    \/ \E i \in DOMAIN log : log[i].rc # 0

\* C16: when deploy has printed its completion message both routines have
\* returned and each of their commands was issued once and exited zero;
\* after any failure the message is not printed
C16_CompletionOnlyOnSuccess ==
    /\ CompletionPrinted =>
          /\ cmdline = "deploy" /\ pc = Done
          /\ \A r \in Roles :
                /\ result[r] = "ok"
                /\ \A c \in Commands(r) :
                      /\ Cardinality(Issued(r, c)) = 1
                      /\ \A i \in Issued(r, c) : log[i].rc = 0
          /\ ~AnyFailure
    /\ AnyFailure => ~CompletionPrinted

\* the last command of the last routine exits non-zero
C16_Witness ==
    /\ cmdline = "deploy"
    /\ pc = Failed
    /\ ~CompletionPrinted
    /\ \E i \in Issued("web", CmdWebRestart) :
          /\ log[i].rc # 0
          /\ \A j \in 1..(i - 1) : log[j].rc = 0
    /\ \A c \in Commands("app") \cup Commands("web") :
          \E i \in DOMAIN log : log[i].ev = "exec" /\ log[i].arg = c

\* the try blocks of `role` that use an SFTP channel: those whose finally
\* closes it
ChannelBlocks(role) ==
    {b \in TryBlocks(role) : Steps(role)[b.finally].op = "sftp_close"}

\* the channels of `role` opened, and closed, before log position i
OpenedBefore(role, i) ==
    {j \in 1..(i - 1) : log[j].ev = "open_sftp" /\ log[j].role = role /\ log[j].rc = 0}

ClosedBefore(role, i) ==
    {j \in 1..(i - 1) : log[j].ev = "sftp_close" /\ log[j].role = role}

\* the temporary path a move command takes its artifact from
MovedFrom(cmd) == IF cmd = CmdAppMvUnit THEN TmpUnit ELSE TmpConf

\* C17: a routine has an SFTP channel open only while it is inside the
\* block that uses it, up to that block's finally; so at most one channel
\* is open, none is open without its session or once the routine has
\* ended, and a rendered artifact is moved only after it was written and
\* the channel that wrote it, like every channel before, was closed
C17_ChannelsClosed ==
    /\ \A r \in Roles :
          /\ sftp[r] \in {0, 1}
          /\ sftp[r] = 1 =>
                /\ sess[r] = "open"
                /\ result[r] = "none"
                /\ pc.r = r
                /\ \E b \in ChannelBlocks(r) : b.first <= pc.i /\ pc.i <= b.finally
          /\ sftp[r] = Cardinality(OpenedBefore(r, Len(log) + 1))
                       - Cardinality(ClosedBefore(r, Len(log) + 1))
    /\ sftp["app"] + sftp["web"] <= 1
    /\ \A i \in DOMAIN log :
          /\ (log[i].ev = "open_sftp" \/ log[i].ev = "close") =>
                Cardinality(OpenedBefore(log[i].role, i))
                   = Cardinality(ClosedBefore(log[i].role, i))
          /\ (log[i].ev = "exec" /\ log[i].arg \in {CmdAppMvUnit, CmdWebMvConf}) =>
                /\ Cardinality(OpenedBefore(log[i].role, i))
                      = Cardinality(ClosedBefore(log[i].role, i))
                /\ \E w \in 1..(i - 1), c \in 1..(i - 1) :
                      /\ w < c
                      /\ log[w].ev = "write" /\ log[w].role = log[i].role
                      /\ log[w].arg = MovedFrom(log[i].arg) /\ log[w].rc = 0
                      /\ log[c].ev = "sftp_close" /\ log[c].role = log[i].role

\* the upload of the application tree fails: its channel is closed before
\* the session, and deploy ends with the upload's error
C17_Witness ==
    /\ pc = Failed
    /\ err = LibraryError("IOError", "put")
    /\ sftp["app"] = 0
    /\ Len(log) >= 3
    /\ log[Len(log) - 2].ev = "put_dir" /\ log[Len(log) - 2].rc # 0
    /\ log[Len(log) - 1].ev = "sftp_close"
    /\ log[Len(log)].ev = "close"

\* the three environment variables are all set and non-empty
AllSet == \A v \in DOMAIN env : env[v] # NoneV /\ env[v] # ""

\* the endpoint set made of the three environment variables
FromEnv == [app_public_ip |-> env.APP_VM_IP, web_public_ip |-> env.WEB_VM_IP,
            app_private_ip |-> env.APP_PRIVATE_IP]

============================================================================
